---- MODULE Spec2Model ----
(***************************************************************************)
(* spk-tools (src/src/main.rs): count / fix / shuffle over a batch of     *)
(* .spk files.  A file is a sequence of bytes; record boundaries are only  *)
(* known through Stoatpack::deserialise, which reads from the stream       *)
(* cursor.  The decoder is external: it is modelled as an arbitrary        *)
(* deterministic streaming reader whose verdicts are fixed lazily, the     *)
(* first time a prefix is presented to it.                                 *)
(***************************************************************************)
EXTENDS Integers, Sequences, FiniteSets, TLC

\* ------------------------------------------------------------------ bounds
NumFiles == 2
MaxBytes == 3
MaxRuns == 2
MaxProbes == 4
MaxMoves == 2

\* --------------------------------------------------------------- constants
I16Min == -32768
DefaultEvalLimit == 25001

Byte == {0, 1}
Contents == UNION {[1..n -> Byte] : n \in 0..MaxBytes}
RECURSIVE TotalLen(_, _)
TotalLen(fs, n) == IF n = 0 THEN 0 ELSE Len(fs[n]) + TotalLen(fs, n - 1)
Batches == {fs \in [1..NumFiles -> Contents] : TotalLen(fs, NumFiles) <= MaxBytes}
Commands == {"count", "fix", "shuffle"}
Builds == {"debug", "release"}
Outcomes == {"SenteWin", "SenteLoss", "Draw"}

VARIABLES
    files,                  \* the .spk files on disk, in batch order
    dec,                    \* verdicts of the decoder fixed so far
    run, command, build, quick, eval_limit,     \* the invocation
    pc, idx,                \* position in main's loop over paths
    opened,                 \* contents of the current file when it was opened
    pos, prev_pos, buffer, broken_records,      \* get_buffer / count cursor
    attempts,               \* the decoder invocations of the current scan
    total_records, total_broken_records, total_trimmed_bytes, fixed_files,
    game, positions, black_wins, white_wins, draws, reverses,  \* count()
    total_positions, black_win, white_win, draw, reverse, king_squares,
    returned                \* what fix / shuffle returned to main, per file

diskVars == <<files, dec>>
invVars == <<run, command, build, quick, eval_limit>>
scanVars == <<opened, pos, prev_pos, buffer, broken_records, attempts>>
fixVars == <<total_records, total_broken_records, total_trimmed_bytes, fixed_files>>
countVars == <<game, positions, black_wins, white_wins, draws, reverses>>
statVars == <<total_positions, black_win, white_win, draw, reverse, king_squares>>
vars == <<diskVars, invVars, pc, idx, scanVars, fixVars, countVars, statVars, returned>>

\* ------------------------------------------------------------ byte helpers
Prefix(s, k) == SubSeq(s, 1, k)
Rest(f, p) == SubSeq(f, p + 1, Len(f))

RECURSIVE Flatten(_)
Flatten(blocks) ==
    IF blocks = <<>> THEN <<>> ELSE Head(blocks) \o Flatten(Tail(blocks))

Perms(n) == {p \in [1..n -> 1..n] : \A i, j \in 1..n : p[i] = p[j] => i = j}
Permute(blocks, p) == [i \in 1..Len(blocks) |-> blocks[p[i]]]

\* ------------------------------------------------ Stoatpack::deserialise
\* The decoder reads the stream byte by byte.  After the bytes q it either
\* returns Ok ("ok"), returns Err ("fail"), or reads on ("more"); reading on
\* at end of file is an UnexpectedEof Err that has consumed the whole rest.
\* A response is the number n of bytes consumed and the verdict d on them.
\* A record takes at least one byte; an Err may come before any byte is read.
\* The verdict depends on the bytes read alone, so the decoder is deterministic.
Responses(s) ==
    {r \in [n : 0..Len(s), d : {"ok", "fail", "more"}] :
        /\ r.d = "more" => r.n = Len(s)
        /\ r.d = "ok" => r.n >= 1
        /\ \A k \in 0..(r.n - 1) :
              Prefix(s, k) \in DOMAIN dec => dec[Prefix(s, k)] = "more"
        /\ Prefix(s, r.n) \in DOMAIN dec => dec[Prefix(s, r.n)] = r.d}

Learn(s, r) ==
    LET read == {Prefix(s, k) : k \in 0..(r.n - 1)}
    IN  [q \in DOMAIN dec \cup read \cup {Prefix(s, r.n)} |->
            IF q = Prefix(s, r.n) THEN r.d
            ELSE IF q \in read THEN "more"
            ELSE dec[q]]

Attempt(p, r) == [start |-> p, n |-> r.n, ok |-> (r.d = "ok")]

\* The byte ranges of `file` that the decoder decoded successfully, in order.
RECURSIVE Decoded(_, _)
Decoded(file, as) ==
    IF as = <<>> THEN <<>>
    ELSE LET a == Head(as)
         IN  (IF a.ok THEN <<SubSeq(file, a.start + 1, a.start + a.n)>> ELSE <<>>)
                 \o Decoded(file, Tail(as))

\* ------------------------------------------------------------------ count
Scores == {I16Min, -30000, -25000, -100, 100, 25000, 26000}
EvalLimits == {I16Min, 1000, 25000, DefaultEvalLimit}
ScoreSeqs ==
    UNION {[1..n -> Scores] : n \in 0..MaxMoves}
        \cup {<<50, -30000, 10>>, <<100, 26000, -100>>}
Games == [wdl : Outcomes, moves : ScoreSeqs]
BatchGames ==
    {[wdl |-> "SenteWin", moves |-> <<50, -30000, 10>>],
     [wdl |-> "Draw", moves |-> <<>>]}
NoGame == [wdl |-> "none", moves |-> <<>>]

\* i16 arithmetic with overflow checks off: abs and negation wrap at i16::MIN.
Abs16(x) == IF x = I16Min THEN I16Min ELSE IF x < 0 THEN -x ELSE x
Neg16(x) == IF x = I16Min THEN I16Min ELSE -x

\* With overflow checks on, the same operations panic.
OverflowPanics(g, limit) ==
    \/ \E i \in 1..Len(g.moves) : g.moves[i] = I16Min
    \/ g.wdl = "SenteWin" /\ Len(g.moves) > 0 /\ limit = I16Min

\* The start position left out of the count.
PositionsOfNoStart(g, limit) ==
    Cardinality({i \in 1..Len(g.moves) : Abs16(g.moves[i]) <= limit})

PositionsOf(g, limit) ==
    Cardinality({i \in 1..Len(g.moves) : Abs16(g.moves[i]) <= limit}) + 1

IsReverse(g, limit) ==
    \/ g.wdl = "SenteWin" /\ \E i \in 1..Len(g.moves) : g.moves[i] <= Neg16(limit)
    \/ g.wdl = "SenteLoss" /\ \E i \in 1..Len(g.moves) : g.moves[i] >= limit

\* One pass of count's loop body over the decoded game g.
CountGame(g) ==
    /\ game' = g
    /\ IF build = "debug" /\ OverflowPanics(g, eval_limit)
       THEN /\ pc' = "panic"
            /\ UNCHANGED <<positions, black_wins, white_wins, draws, reverses,
                           king_squares>>
       ELSE /\ pc' = pc
            /\ black_wins' = black_wins + (IF g.wdl = "SenteWin" THEN 1 ELSE 0)
            /\ white_wins' = white_wins + (IF g.wdl = "SenteLoss" THEN 1 ELSE 0)
            /\ draws' = draws + (IF g.wdl = "Draw" THEN 1 ELSE 0)
            /\ positions' = positions + PositionsOf(g, eval_limit)
            /\ reverses' = reverses + (IF IsReverse(g, eval_limit) THEN 1 ELSE 0)
            /\ king_squares' =
                  IF quick THEN king_squares ELSE king_squares + 1 + Len(g.moves)

\* ------------------------------------------------------------- get_buffer
\* The block read without the seek back to prev_pos: from the start of the file.
GameBufferNoSeek(file, from, to) == SubSeq(file, 1, to - from)

GameBuffer(file, from, to) == SubSeq(file, from + 1, to)

GetBufferOk ==
    /\ pc = "scan" /\ command \in {"fix", "shuffle"}
    /\ pos < Len(files[idx])
    /\ \E r \in Responses(Rest(files[idx], pos)) :
          /\ r.d = "ok"
          /\ LET curr_pos == pos + r.n
             IN  /\ buffer' = Append(buffer, GameBuffer(files[idx], prev_pos, curr_pos))
                 /\ prev_pos' = curr_pos
                 /\ pos' = curr_pos
          /\ dec' = Learn(Rest(files[idx], pos), r)
          /\ attempts' = Append(attempts, Attempt(pos, r))
    /\ UNCHANGED <<files, invVars, pc, idx, opened, broken_records, fixVars,
                   countVars, statVars, returned>>

GetBufferErr ==
    /\ pc = "scan" /\ command \in {"fix", "shuffle"}
    /\ pos < Len(files[idx])
    /\ broken_records < MaxProbes
    /\ \E r \in Responses(Rest(files[idx], pos)) :
          /\ r.d # "ok"
          /\ broken_records' = broken_records + 1
          /\ pos' = pos + r.n
          /\ dec' = Learn(Rest(files[idx], pos), r)
          /\ attempts' = Append(attempts, Attempt(pos, r))
    /\ UNCHANGED <<files, invVars, pc, idx, opened, prev_pos, buffer, fixVars,
                   countVars, statVars, returned>>

\* -------------------------------------------------------------------- fix
\* The write without the seek to 0 and set_len(0): appended at the cursor.
WriteBufferAppend(file, bytes) == file \o bytes

WriteBuffer(file, bytes) == bytes
TrimmedBytes(len, newlen) == len - newlen
FixedFiles(fixed, total_broken) == IF total_broken # 0 THEN fixed + 1 ELSE fixed

Result(records, broken, trimmed) ==
    [run |-> run, file |-> idx, command |-> command, records |-> records,
     broken |-> broken, trimmed |-> trimmed,
     decoded |-> Decoded(files[idx], attempts)]

Fix ==
    /\ pc = "scan" /\ command = "fix"
    /\ pos >= Len(files[idx])
    /\ LET len == Len(files[idx])
           records == Len(buffer)
           written == IF broken_records = 0 THEN files[idx]
                      ELSE WriteBuffer(files[idx], Flatten(buffer))
           trimmed_bytes == IF broken_records = 0 THEN 0
                            ELSE TrimmedBytes(len, Len(written))
       IN  /\ files' = [files EXCEPT ![idx] = written]
           /\ total_records' = total_records + records
           /\ total_broken_records' = total_broken_records + broken_records
           /\ total_trimmed_bytes' = total_trimmed_bytes + trimmed_bytes
           /\ fixed_files' = FixedFiles(fixed_files, total_broken_records')
           /\ returned' = Append(returned, Result(records, broken_records, trimmed_bytes))
    /\ pc' = "main"
    /\ idx' = idx + 1
    /\ UNCHANGED <<dec, invVars, scanVars, countVars, statVars>>

\* ---------------------------------------------------------------- shuffle
\* The rewrite without the test of broken_records.
ShuffledAlways(file, blocks, broken, p) ==
    WriteBuffer(file, Flatten(Permute(blocks, p)))

Shuffled(file, blocks, broken, p) ==
    IF broken = 0 THEN WriteBuffer(file, Flatten(Permute(blocks, p))) ELSE file

Shuffle ==
    /\ pc = "scan" /\ command = "shuffle"
    /\ pos >= Len(files[idx])
    /\ \E p \in Perms(Len(buffer)) :
          /\ files' = [files EXCEPT ![idx] = Shuffled(files[idx], buffer, broken_records, p)]
          /\ buffer' = IF broken_records = 0 THEN Permute(buffer, p) ELSE buffer
    /\ total_records' = total_records + Len(buffer)
    /\ total_broken_records' = total_broken_records + broken_records
    /\ returned' = Append(returned, Result(Len(buffer), broken_records, 0))
    /\ pc' = "main"
    /\ idx' = idx + 1
    /\ UNCHANGED <<dec, invVars, opened, pos, prev_pos, broken_records, attempts,
                   total_trimmed_bytes, fixed_files, countVars, statVars>>

\* ------------------------------------------------------------ count's loop
CountOk(pool) ==
    /\ pc = "scan" /\ command = "count"
    /\ pos < Len(files[idx])
    /\ \E r \in Responses(Rest(files[idx], pos)) :
          /\ r.d = "ok"
          /\ pos' = pos + r.n
          /\ dec' = Learn(Rest(files[idx], pos), r)
          /\ attempts' = Append(attempts, Attempt(pos, r))
    /\ \E g \in pool : CountGame(g)
    /\ UNCHANGED <<files, invVars, idx, opened, prev_pos, buffer, broken_records,
                   fixVars, total_positions, black_win, white_win, draw, reverse,
                   returned>>

\* `Stoatpack::deserialise(&mut reader)?` returns the Err from count, and main's
\* `count(...)?` returns it from main: the batch ends there.
CountErr ==
    /\ pc = "scan" /\ command = "count"
    /\ pos < Len(files[idx])
    /\ \E r \in Responses(Rest(files[idx], pos)) :
          /\ r.d # "ok"
          /\ pos' = pos + r.n
          /\ dec' = Learn(Rest(files[idx], pos), r)
          /\ attempts' = Append(attempts, Attempt(pos, r))
    /\ pc' = "err"
    /\ UNCHANGED <<files, invVars, idx, opened, prev_pos, buffer, broken_records,
                   fixVars, countVars, statVars, returned>>

Count ==
    /\ pc = "scan" /\ command = "count"
    /\ pos >= Len(files[idx])
    /\ total_positions' = total_positions + positions
    /\ black_win' = black_win + black_wins
    /\ white_win' = white_win + white_wins
    /\ draw' = draw + draws
    /\ reverse' = reverse + reverses
    /\ pc' = "main"
    /\ idx' = idx + 1
    /\ UNCHANGED <<diskVars, invVars, scanVars, fixVars, countVars, king_squares,
                   returned>>

\* ------------------------------------------------------------------- main
\* The next path of the batch: the file is opened and the locals of
\* count / fix / shuffle / get_buffer are initialised.
Open ==
    /\ pc = "main" /\ idx <= NumFiles
    /\ opened' = files[idx]
    /\ pos' = 0 /\ prev_pos' = 0 /\ buffer' = <<>> /\ broken_records' = 0
    /\ attempts' = <<>>
    /\ game' = NoGame
    /\ positions' = 0 /\ black_wins' = 0 /\ white_wins' = 0 /\ draws' = 0
    /\ reverses' = 0
    /\ pc' = "scan"
    /\ UNCHANGED <<diskVars, invVars, idx, fixVars, statVars, returned>>

Summary ==
    /\ pc = "main" /\ idx > NumFiles
    /\ pc' = "done"
    /\ UNCHANGED <<diskVars, invVars, idx, scanVars, fixVars, countVars, statVars,
                   returned>>

Zero ==
    /\ total_records = 0 /\ total_broken_records = 0 /\ total_trimmed_bytes = 0
    /\ fixed_files = 0
    /\ total_positions = 0 /\ black_win = 0 /\ white_win = 0 /\ draw = 0
    /\ reverse = 0 /\ king_squares = 0

Locals ==
    /\ pos = 0 /\ prev_pos = 0 /\ buffer = <<>>
    /\ broken_records = 0 /\ attempts = <<>>
    /\ game = NoGame
    /\ positions = 0 /\ black_wins = 0 /\ white_wins = 0 /\ draws = 0
    /\ reverses = 0

\* Cli::parse(): the subcommand and its arguments.
\* In the batch runs --eval-limit keeps its default and BatchGames holds no
\* score of i16::MIN, so no overflow arises and the build makes no difference;
\* SpecCount below covers the builds, --quick and the other limits.
Cli(c, b, q, e) ==
    /\ c \in Commands
    /\ b = "release"
    /\ q = TRUE
    /\ e = DefaultEvalLimit

\* The tool is run again on the same files.
Invoke ==
    /\ pc \in {"done", "err", "panic"}
    /\ run < MaxRuns
    /\ run' = run + 1
    /\ Cli(command', build', quick', eval_limit')
    /\ total_records' = 0 /\ total_broken_records' = 0
    /\ total_trimmed_bytes' = 0 /\ fixed_files' = 0
    /\ total_positions' = 0 /\ black_win' = 0 /\ white_win' = 0 /\ draw' = 0
    /\ reverse' = 0 /\ king_squares' = 0
    /\ opened' = <<>> /\ pos' = 0 /\ prev_pos' = 0 /\ buffer' = <<>>
    /\ broken_records' = 0 /\ attempts' = <<>>
    /\ game' = NoGame
    /\ positions' = 0 /\ black_wins' = 0 /\ white_wins' = 0 /\ draws' = 0
    /\ reverses' = 0
    /\ pc' = "main" /\ idx' = 1
    /\ UNCHANGED <<diskVars, returned>>

Init ==
    /\ files \in Batches
    /\ dec = [q \in {} |-> "more"]
    /\ run = 1
    /\ Cli(command, build, quick, eval_limit)
    /\ Zero /\ Locals /\ opened = <<>>
    /\ pc = "main" /\ idx = 1
    /\ returned = <<>>

Next ==
    \/ Open
    \/ GetBufferOk
    \/ GetBufferErr
    \/ Fix
    \/ Shuffle
    \/ CountOk(BatchGames)
    \/ CountErr
    \/ Count
    \/ Summary
    \/ Invoke

Spec == Init /\ [][Next]_vars

\* ------------------------------------------------- count on a single game
\* count run on one file that holds one record, for every game the record may
\* decode to, every --eval-limit of EvalLimits, with and without --quick, and
\* with overflow checks on and off.
OneRecord == [i \in 1..NumFiles |-> IF i = 1 THEN <<0>> ELSE <<>>]

InitCount ==
    /\ files = OneRecord
    /\ dec = [q \in {} |-> "more"]
    /\ run = 1
    /\ command = "count"
    /\ build \in Builds
    /\ quick \in BOOLEAN
    /\ eval_limit \in EvalLimits
    /\ Zero /\ Locals /\ opened = OneRecord[1]
    /\ pc = "scan" /\ idx = 1
    /\ returned = <<>>

NextCount ==
    \/ CountOk(Games)
    \/ Count

SpecCount == InitCount /\ [][NextCount]_vars

\* ================================================================ claims
\* fix / shuffle / count of file idx - 1 has just returned to main; the locals
\* of its scan are still in place.
Returned(c) == pc \in {"main", "done"} /\ idx > 1 /\ command = c
Failed(as) == Cardinality({i \in 1..Len(as) : ~as[i].ok})
Rerun(i, j) ==
    /\ returned[j].run = returned[i].run + 1
    /\ returned[j].file = returned[i].file

\* C1: when fix finds broken records, the rewritten file is exactly the
\* concatenation, in order, of the byte ranges the decoder decoded
\* successfully; no byte consumed by a failed attempt survives.
C1_RepairKeepsOnlyDecodedBytes ==
    (Returned("fix") /\ broken_records > 0)
        => files[idx - 1] = Flatten(Decoded(opened, attempts))

\* C2: round trip: scanning the concatenation of the blocks a scan returned
\* (the file fix leaves behind) finds no broken record and decodes the same
\* records as the first scan.
C2_RoundTrip ==
    \A i, j \in 1..Len(returned) :
        (returned[i].command = "fix" /\ Rerun(i, j))
            => /\ returned[j].broken = 0
               /\ returned[j].decoded = returned[i].decoded

\* C3: forward progress: after a failed decode the scan never probes the same
\* offset again, so every scan terminates.
C3_ForwardProgress ==
    \A i \in 1..(Len(attempts) - 1) :
        ~attempts[i].ok => attempts[i + 1].start > attempts[i].start

\* C4: shuffle of a file with broken records leaves the file byte for byte
\* unchanged and still returns the record count and the broken count.
C4_CorruptionRefusal ==
    (Returned("shuffle") /\ Failed(attempts) > 0)
        => /\ files[idx - 1] = opened
           /\ returned[Len(returned)].records = Len(Decoded(opened, attempts))
           /\ returned[Len(returned)].broken = Failed(attempts)

C4_Witness ==
    /\ Returned("shuffle") /\ Failed(attempts) > 0
    /\ Len(buffer) > 0
    /\ Flatten(buffer) # opened

\* C5: shuffle of a file without broken records leaves a concatenation of the
\* same record blocks, each unaltered, in some order; the length is unchanged.
C5_PermutationPreservesContent ==
    (Returned("shuffle") /\ Failed(attempts) = 0)
        => LET recs == Decoded(opened, attempts)
           IN  /\ Flatten(recs) = opened
               /\ \E p \in Perms(Len(recs)) :
                     files[idx - 1] = Flatten(Permute(recs, p))
               /\ Len(files[idx - 1]) = Len(opened)

C5_Witness ==
    /\ Returned("shuffle") /\ Failed(attempts) = 0
    /\ files[idx - 1] # opened

\* C6: fix run twice in succession on a file returns trimmed_bytes = 0 the
\* second time.
C6_RepairIdempotent ==
    \A i, j \in 1..Len(returned) :
        (returned[i].command = "fix" /\ returned[j].command = "fix" /\ Rerun(i, j))
            => returned[j].trimmed = 0

C6_Witness ==
    \E i, j \in 1..Len(returned) :
        /\ returned[i].command = "fix" /\ returned[j].command = "fix" /\ Rerun(i, j)
        /\ returned[i].trimmed > 0
        /\ returned[j].broken > 0

\* C7: in every mode, count included, a record that fails to decode is never
\* returned as an error from the per-file operation and never ends the batch.
C7_DecodeFailureNeverAborts ==
    Failed(attempts) > 0 => pc # "err"

\* C8: a decoded game adds exactly 1 to the reversal count when it is a
\* SenteWin game with a score <= -eval_limit or a SenteLoss game with a score
\* >= eval_limit, and 0 otherwise.
C8_ReversalDetection ==
    game # NoGame
        => reverses =
              IF \/ /\ game.wdl = "SenteWin"
                    /\ \E i \in 1..Len(game.moves) : game.moves[i] <= -eval_limit
                 \/ /\ game.wdl = "SenteLoss"
                    /\ \E i \in 1..Len(game.moves) : game.moves[i] >= eval_limit
              THEN 1 ELSE 0

\* Away from the i16 overflows (no panic, eval_limit above i16::MIN) the
\* reversal count is as C8 states it.
ReversalAwayFromOverflow ==
    (pc # "panic" /\ eval_limit # I16Min) => C8_ReversalDetection

\* C9 as stated: the game scored [100, 26000, -100] adds 4 positions with
\* eval_limit = 25001 and 2 with eval_limit = 1000.
C9_PositionCountingAsStated ==
    (game # NoGame /\ game.moves = <<100, 26000, -100>>)
        => /\ eval_limit = 25001 => positions = 4
           /\ eval_limit = 1000 => positions = 2

\* C9 amended: the game scored [100, 26000, -100] adds 3 positions both with
\* eval_limit = 25001 and with eval_limit = 1000: the start position and the
\* two moves scored 100 and -100; 26000 is beyond either limit.
C9_PositionCounting ==
    (game # NoGame /\ game.moves = <<100, 26000, -100>>)
        => /\ eval_limit = 25001 => positions = 3
           /\ eval_limit = 1000 => positions = 3

C9_Witness ==
    /\ game # NoGame /\ game.moves = <<100, 26000, -100>>
    /\ eval_limit = 25001
    /\ positions = 3

\* C10: at the end of a fix batch, fixed_files is the number of files of the
\* batch whose own scan found broken records.
C10_FixedFilesCount ==
    (command = "fix" /\ pc = "done")
        => fixed_files =
              Cardinality({i \in 1..Len(returned) :
                              returned[i].run = run /\ returned[i].broken > 0})

====
